---- MODULE Spec2Model ----
(***************************************************************************)
(* Model of package dmap (dijkstra.go): a Brogue-style "Dijkstra map", a   *)
(* dense grid of ranks relaxed to the hop distance to the nearest target.  *)
(*                                                                         *)
(* The state is one DijkstraMap (Points, M, NeigbourFunc) together with    *)
(* the position of the running Calc call.  One sweep of Calc's fixed-point *)
(* loop is one step; the sweep itself is computed cell by cell, in the     *)
(* order of the code, by SweepFrom.                                        *)
(***************************************************************************)
EXTENDS Integers, Sequences, FiniteSets, TLC

\* ------------------------------------------------------------------ bounds
\* Grids of Spec have at most MaxCells cells (every shape SizeX x SizeY).
MaxCells == 6
\* Calc and Recalc take at most MaxTargets distinct target points.
MaxTargets == 2
\* A behaviour of Spec holds at most MaxCalls calls of Calc or Recalc.
MaxCalls == 2
\* The sweep counters stop counting at MaxSweeps.
MaxSweeps == 6
\* SpecMaze opens at most MaxOpened walls of the base maze.
MaxOpened == 1

\* ------------------------------------------------------- program constants
\* math.MaxUint16: Rank is uint16.
MaxUint16 == 65535

\* Arithmetic on Rank is modulo 2^16.
RankModulus == MaxUint16 + 1

RankMaxNoHeadroom == MaxUint16

\* const RankMax = math.MaxUint16 - 10
RankMax == MaxUint16 - 10

VARIABLES
    SizeX,          \* d.M.SizeX()
    SizeY,          \* d.M.SizeY()
    passable,       \* the cells for which d.M.IsPassable is true
    topo,           \* d.NeigbourFunc: "Manhattan" or "Diagonal"
    Points,         \* d.Points, [x -> [y -> Rank]]
    pc,             \* "idle": no call is running; "loop": at the head of Calc's loop
    mademutation,   \* Calc's local variable
    op,             \* the last call: "none", "Calc" or "Recalc"
    targets,        \* the points of the last call, as a set of <<x, y>>
    dirty,          \* the field was not blank when the last call began
    again,          \* the last call is a Calc with the targets of the completed call before it
    changed,        \* some write of the last call changed a cell
    sweeps,         \* sweeps the last call has completed
    mutations,      \* sweeps of the last call that made a mutation
    calls,          \* calls of Calc and Recalc made so far
    query           \* the last GetValPoint / LowestNeighbour call and what it returned

vars == <<SizeX, SizeY, passable, topo, Points, pc, mademutation, op, targets,
          dirty, again, changed, sweeps, mutations, calls, query>>

Min(a, b) == IF a < b THEN a ELSE b

\* ------------------------------------------------------------ the Map
Xs == 0 .. (SizeX - 1)

Ys == 0 .. (SizeY - 1)

Cells == Xs \X Ys

\* Map.IsPassable
IsPassable(x, y) == <<x, y>> \in passable

\* Map.OOB: agrees with SizeX and SizeY
OOB(x, y) == x < 0 \/ x >= SizeX \/ y < 0 \/ y >= SizeY

\* ------------------------------------------------------------ the field
\* BlankDMap: every cell at RankMax
BlankDMap == [x \in Xs |-> [y \in Ys |-> RankMax]]

\* WeightedPoint
WeightedPoint(x, y, val) == [X |-> x, Y |-> y, Val |-> val]

GetValPointZeroOOB(P, x, y) ==
    IF OOB(x, y) THEN WeightedPoint(x, y, 0) ELSE WeightedPoint(x, y, P[x][y])

\* DijkstraMap.GetValPoint
GetValPoint(P, x, y) ==
    IF OOB(x, y) THEN WeightedPoint(x, y, RankMax) ELSE WeightedPoint(x, y, P[x][y])

ManhattanNeighboursNoSouth(P, x, y) ==
    << GetValPoint(P, x + 1, y),
       GetValPoint(P, x - 1, y),
       GetValPoint(P, x, y - 1) >>

\* ManhattanNeighbours: east, west, north, south
ManhattanNeighbours(P, x, y) ==
    << GetValPoint(P, x + 1, y),
       GetValPoint(P, x - 1, y),
       GetValPoint(P, x, y - 1),
       GetValPoint(P, x, y + 1) >>

\* DiagonalNeighbours: the four above, then the diagonals
DiagonalNeighbours(P, x, y) ==
    << GetValPoint(P, x + 1, y),
       GetValPoint(P, x - 1, y),
       GetValPoint(P, x, y - 1),
       GetValPoint(P, x, y + 1),
       GetValPoint(P, x + 1, y + 1),
       GetValPoint(P, x + 1, y - 1),
       GetValPoint(P, x - 1, y + 1),
       GetValPoint(P, x - 1, y - 1) >>

\* d.NeigbourFunc(d, x, y)
NeigbourFunc(P, x, y) ==
    IF topo = "Manhattan" THEN ManhattanNeighbours(P, x, y)
    ELSE DiagonalNeighbours(P, x, y)

RECURSIVE LowestScanLastWins(_, _, _, _)
LowestScanLastWins(vals, i, lv, ret) ==
    IF i > Len(vals) THEN ret
    ELSE CHOOSE r \in
            { IF val.Val <= lv
              THEN LowestScanLastWins(vals, n, val.Val, val)
              ELSE LowestScanLastWins(vals, n, lv, ret) :
              val \in {vals[i]}, n \in {i + 1} } : TRUE

\* The loop of LowestNeighbour, from index i on, with the locals lv and ret.
\* (CHOOSE r \in { e : v \in {d} } : TRUE is e with the local v holding the
\* value of d, computed once, as an assignment to a local does.)
RECURSIVE LowestScan(_, _, _, _)
LowestScan(vals, i, lv, ret) ==
    IF i > Len(vals) THEN ret
    ELSE CHOOSE r \in
            { IF val.Val < lv
              THEN LowestScan(vals, n, val.Val, val)
              ELSE LowestScan(vals, n, lv, ret) :
              val \in {vals[i]}, n \in {i + 1} } : TRUE

\* DijkstraMap.LowestNeighbour
LowestNeighbour(P, x, y) ==
    CHOOSE ret \in {LowestScan(vals, 1, RankMax, vals[1]) :
                      vals \in {NeigbourFunc(P, x, y)}} : TRUE

\* ------------------------------------------------------------ Calc
SetTargetsPassableOnly(P, T) ==
    [x \in DOMAIN P |-> [y \in DOMAIN P[x] |->
        IF <<x, y>> \in T /\ IsPassable(x, y) THEN 0 ELSE P[x][y]]]

\* The first loop of Calc: d.Points[x][y] = 0 for every point
SetTargets(P, T) ==
    [x \in DOMAIN P |-> [y \in DOMAIN P[x] |->
        IF <<x, y>> \in T THEN 0 ELSE P[x][y]]]

RelaxNotStrict(st, x, y) ==
    IF IsPassable(x, y)
    THEN CHOOSE r \in
            { IF st.P[x][y] >= (ln + 1) % RankModulus
              THEN [P |-> [st.P EXCEPT ![x][y] = (ln + 1) % RankModulus], mut |-> TRUE]
              ELSE st :
              ln \in {LowestNeighbour(st.P, x, y).Val} } : TRUE
    ELSE st

\* One relaxation of Calc's loop body: st is the field and mademutation
Relax(st, x, y) ==
    IF IsPassable(x, y)
    THEN CHOOSE r \in
            { IF st.P[x][y] > (ln + 1) % RankModulus
              THEN [P |-> [st.P EXCEPT ![x][y] = (ln + 1) % RankModulus], mut |-> TRUE]
              ELSE st :
              ln \in {LowestNeighbour(st.P, x, y).Val} } : TRUE
    ELSE st

SweepCellLostFlag(st, x, y) ==
    CHOOSE r \in
        { [P |-> Relax(s, x1, y1).P, mut |-> s.mut] :
          s \in {Relax(st, x, y)}, x1 \in {(SizeX - 1) - x}, y1 \in {(SizeY - 1) - y} } : TRUE

\* The body of Calc's inner loop: the cell, then its point reflection
SweepCell(st, x, y) ==
    CHOOSE r \in
        { Relax(s, x1, y1) :
          s \in {Relax(st, x, y)}, x1 \in {(SizeX - 1) - x}, y1 \in {(SizeY - 1) - y} } : TRUE

\* for x := range d.Points { for y := range d.Points[x] { ... } }, from the
\* k-th cell of that order on
RECURSIVE SweepFrom(_, _)
SweepFrom(st, k) ==
    IF k >= SizeX * SizeY THEN st
    ELSE CHOOSE r \in
            { SweepFrom(s, n) :
              s \in {SweepCell(st, k \div SizeY, k % SizeY)}, n \in {k + 1} } : TRUE

ResetPassableOnly(P) ==
    [x \in DOMAIN P |-> [y \in DOMAIN P[x] |->
        IF IsPassable(x, y) THEN RankMax ELSE P[x][y]]]

\* Recalc's loop: d.Points[i][j] = RankMax
ResetPoints(P) == [x \in DOMAIN P |-> [y \in DOMAIN P[x] |-> RankMax]]

NoQuery == [fn |-> "none"]

\* The sets of at most n cells
RECURSIVE CellSets(_)
CellSets(n) ==
    IF n = 0 THEN {{}}
    ELSE LET S == CellSets(n - 1) IN S \cup {s \cup {c} : s \in S, c \in Cells}

\* The points a call may be given: at most MaxTargets cells of the map
TargetSets == CellSets(MaxTargets)

\* Calc(points...): the targets are set and the loop is entered
Calc(T) ==
    /\ pc = "idle"
    /\ calls < MaxCalls
    /\ Points' = SetTargets(Points, T)
    /\ mademutation' = TRUE
    /\ pc' = "loop"
    /\ op' = "Calc"
    /\ targets' = T
    /\ dirty' = (Points # BlankDMap)
    /\ again' = (op # "none" /\ T = targets)
    /\ changed' = (Points' # Points)
    /\ sweeps' = 0
    /\ mutations' = 0
    /\ calls' = calls + 1
    /\ query' = NoQuery
    /\ UNCHANGED <<SizeX, SizeY, passable, topo>>

\* Recalc(points...): the field is reset, then Calc
Recalc(T) ==
    /\ pc = "idle"
    /\ calls < MaxCalls
    /\ Points' = SetTargets(ResetPoints(Points), T)
    /\ mademutation' = TRUE
    /\ pc' = "loop"
    /\ op' = "Recalc"
    /\ targets' = T
    /\ dirty' = (Points # BlankDMap)
    /\ again' = FALSE
    /\ changed' = (Points' # Points)
    /\ sweeps' = 0
    /\ mutations' = 0
    /\ calls' = calls + 1
    /\ query' = NoQuery
    /\ UNCHANGED <<SizeX, SizeY, passable, topo>>

\* One iteration of "for mademutation"
Sweep ==
    /\ pc = "loop"
    /\ mademutation
    /\ \E r \in {SweepFrom([P |-> Points, mut |-> FALSE], 0)} :
           /\ Points' = r.P
           /\ mademutation' = r.mut
           /\ mutations' = IF r.mut THEN Min(mutations + 1, MaxSweeps) ELSE mutations
           /\ changed' = (changed \/ r.P # Points)
    /\ sweeps' = Min(sweeps + 1, MaxSweeps)
    /\ UNCHANGED <<SizeX, SizeY, passable, topo, pc, op, targets, dirty, again,
                   calls, query>>

\* The loop condition fails and Calc returns
Return ==
    /\ pc = "loop"
    /\ ~mademutation
    /\ pc' = "idle"
    /\ UNCHANGED <<SizeX, SizeY, passable, topo, Points, mademutation, op, targets,
                   dirty, again, changed, sweeps, mutations, calls, query>>

\* A caller reads one point through GetValPoint
GetValPointCall(x, y) ==
    /\ pc = "idle"
    /\ query' = [fn |-> "GetValPoint", x |-> x, y |-> y, ret |-> GetValPoint(Points, x, y)]
    /\ UNCHANGED <<SizeX, SizeY, passable, topo, Points, pc, mademutation, op, targets,
                   dirty, again, changed, sweeps, mutations, calls>>

\* A caller asks for the lowest neighbour of a cell
LowestNeighbourCall(x, y) ==
    /\ pc = "idle"
    /\ query' = [fn |-> "LowestNeighbour", x |-> x, y |-> y,
                 ret |-> LowestNeighbour(Points, x, y)]
    /\ UNCHANGED <<SizeX, SizeY, passable, topo, Points, pc, mademutation, op, targets,
                   dirty, again, changed, sweeps, mutations, calls>>

\* Calc called on the field as BlankDMap left it
CalcBlank(T) == Points = BlankDMap /\ Calc(T)

\* The state BlankDMap(m, neigbourfunc) returns, for a map m of the given shape
Constructed ==
    /\ topo \in {"Manhattan", "Diagonal"}
    /\ Points = BlankDMap
    /\ pc = "idle"
    /\ mademutation = FALSE
    /\ op = "none"
    /\ targets = {}
    /\ dirty = FALSE
    /\ again = FALSE
    /\ changed = FALSE
    /\ sweeps = 0
    /\ mutations = 0
    /\ calls = 0
    /\ query = NoQuery

\* Every map of at most MaxCells cells, every passability pattern
Init ==
    /\ SizeX \in 1 .. MaxCells
    /\ SizeY \in 1 .. MaxCells
    /\ SizeX * SizeY <= MaxCells
    /\ passable \in SUBSET Cells
    /\ Constructed

\* Sequences of Calc and Recalc calls
Next ==
    \/ \E T \in TargetSets : Calc(T)
    \/ \E T \in TargetSets : Recalc(T)
    \/ Sweep
    \/ Return

Spec == Init /\ [][Next]_vars

\* One Calc on the blank field
NextBlank ==
    \/ \E T \in TargetSets : CalcBlank(T)
    \/ Sweep
    \/ Return

\* Calc is synchronous: once called, its loop runs on until it returns
FairBlank == Init /\ [][NextBlank]_vars /\ WF_vars(Sweep) /\ WF_vars(Return)

\* One Calc on the blank field, then reads of the field
NextQuery ==
    \/ \E T \in TargetSets : CalcBlank(T)
    \/ Sweep
    \/ Return
    \/ \E x \in -1 .. SizeX, y \in -1 .. SizeY : GetValPointCall(x, y)
    \/ \E c \in Cells : LowestNeighbourCall(c[1], c[2])

SpecQuery == Init /\ [][NextQuery]_vars

\* The open cells of a maze: a corridor that winds from <<0, 4>> to <<4, 3>>
MazeOpen ==
    { <<0, 3>>, <<0, 4>>, <<1, 1>>, <<1, 2>>, <<2, 0>>,
      <<3, 0>>, <<3, 2>>, <<3, 4>>, <<4, 1>>, <<4, 3>> }

\* The side of the least square map that holds the maze
MazeSide == 1 + CHOOSE n \in 0 .. Cardinality(MazeOpen) :
                    /\ \E c \in MazeOpen : c[1] = n \/ c[2] = n
                    /\ \A c \in MazeOpen : c[1] <= n /\ c[2] <= n

\* The maze, with at most MaxOpened of its walls opened
InitMaze ==
    /\ SizeX = MazeSide
    /\ SizeY = MazeSide
    /\ passable \in { MazeOpen \cup S : S \in { S \in SUBSET (Cells \ MazeOpen) :
                                                 Cardinality(S) <= MaxOpened } }
    /\ Constructed

\* One Calc on the blank field of the maze, with at most one target
NextMaze ==
    \/ \E T \in CellSets(1) : CalcBlank(T)
    \/ Sweep
    \/ Return

SpecMaze == InitMaze /\ [][NextMaze]_vars

FairMaze == SpecMaze /\ WF_vars(Sweep) /\ WF_vars(Return)

\* ------------------------------------------------- hop distance (reference)
Max(a, b) == IF a > b THEN a ELSE b

Offsets ==
    << <<1, 0>>, <<-1, 0>>, <<0, -1>>, <<0, 1>>,
       <<1, 1>>, <<1, -1>>, <<-1, 1>>, <<-1, -1>> >>

Degree == IF topo = "Manhattan" THEN 4 ELSE 8

\* The in-bounds cells one hop from c under the topology
Adjacent(c) ==
    { d \in Cells : \E i \in 1 .. Degree :
        d = <<c[1] + Offsets[i][1], c[2] + Offsets[i][2]>> }

\* Breadth-first search: the sequence of the sets of cells at 0, 1, 2, ... hops
\* from the targets, every cell after the targets being passable
RECURSIVE HopLevels(_, _)
HopLevels(seen, frontier) ==
    IF frontier = {} THEN << >>
    ELSE LET next == { c \in passable \ seen : Adjacent(c) \cap frontier # {} }
         IN  <<frontier>> \o HopLevels(seen \cup next, next)

Hops(T) == HopLevels(T, T)

Reached(T) == UNION { Hops(T)[i] : i \in DOMAIN Hops(T) }

Rank(c) == Points[c[1]][c[2]]

\* The last call has returned and relaxed a field that was blank but for its targets
ReturnedFromBlank == pc = "idle" /\ op # "none" /\ (op = "Recalc" \/ ~dirty)

Abs(a) == IF a < 0 THEN -a ELSE a

\* The hops from c to d on a map without walls
FreeHops(c, d) ==
    IF topo = "Manhattan" THEN Abs(c[1] - d[1]) + Abs(c[2] - d[2])
    ELSE Max(Abs(c[1] - d[1]), Abs(c[2] - d[2]))

TargetsAreZero ==
    (pc = "idle" /\ op # "none") => \A t \in targets : Rank(t) = 0

\* A returned call with an impassable target and a passable one
TargetsAreZeroWitness ==
    /\ pc = "idle"
    /\ op # "none"
    /\ targets \ passable # {}
    /\ targets \cap passable # {}

\* C4: when Calc returns after BlankDMap, or Recalc returns, every passable
\* cell that no path through passable cells joins to a target holds RankMax;
\* with no target at all, every cell holds RankMax.
UnreachableKeepRankMax ==
    ReturnedFromBlank =>
        /\ \A c \in passable \ Reached(targets) : Rank(c) = RankMax
        /\ targets = {} => \A c \in Cells : Rank(c) = RankMax

\* A passable cell walled off from the target beside reached passable cells
UnreachableKeepRankMaxWitness ==
    /\ ReturnedFromBlank
    /\ targets # {}
    /\ passable \ Reached(targets) # {}
    /\ \E c \in passable : Rank(c) \in 1 .. (RankMax - 1)

\* Calc as a whole: the targets, then sweeps until one makes no mutation
RECURSIVE CalcLoop(_)
CalcLoop(P) ==
    LET r == SweepFrom([P |-> P, mut |-> FALSE], 0)
    IN  IF r.mut THEN CalcLoop(r.P) ELSE r.P

\* C5: whatever the field held before, the field Recalc(targets) leaves is,
\* cell for cell, the field of BlankDMap followed by Calc(targets).
RecalcIsBlankThenCalc ==
    (pc = "idle" /\ op = "Recalc") =>
        Points = CalcLoop(SetTargets(BlankDMap, targets))

\* Recalc has returned on a field an earlier call had left with ranks below RankMax
RecalcIsBlankThenCalcWitness ==
    /\ pc = "idle"
    /\ op = "Recalc"
    /\ dirty
    /\ targets # {}
    /\ \E c \in Cells \ targets : Rank(c) = RankMax

\* C6: Calc called again with the targets of the completed call before it
\* changes no cell: its first sweep makes no mutation and it returns.
CalcIsIdempotent ==
    (pc = "idle" /\ again) => (~changed /\ sweeps = 1 /\ mutations = 0)

\* The repeated Calc has returned on a field with relaxed cells
CalcIsIdempotentWitness ==
    /\ pc = "idle"
    /\ again
    /\ targets # {}
    /\ \E c \in passable : Rank(c) \in 2 .. (RankMax - 1)

\* C7: GetValPoint(x, y) returns rank RankMax wherever OOB(x, y) is true,
\* whatever the field holds, and the stored rank Points[x][y] everywhere else.
GetValPointSentinel ==
    query.fn = "GetValPoint" =>
        /\ query.ret.X = query.x
        /\ query.ret.Y = query.y
        /\ query.ret.Val = IF OOB(query.x, query.y) THEN RankMax
                           ELSE Points[query.x][query.y]

\* An out-of-bounds read beside a cell of rank 0 has returned RankMax
GetValPointSentinelWitness ==
    /\ query.fn = "GetValPoint"
    /\ OOB(query.x, query.y)
    /\ query.ret.Val = RankMax
    /\ \E c \in Cells : Rank(c) = 0 /\ FreeHops(c, <<query.x, query.y>>) = 1

\* The neighbours of <<x, y>> in the order east, west, north, south, then the
\* diagonals, each with the rank a bounds-checked read gives
Neighbourhood(x, y) ==
    [i \in 1 .. Degree |->
        LET nx == x + Offsets[i][1]
            ny == y + Offsets[i][2]
        IN  [X |-> nx, Y |-> ny,
             Val |-> IF <<nx, ny>> \in Cells THEN Points[nx][ny] ELSE RankMax]]

\* C8: LowestNeighbour(x, y) returns the neighbour of minimum rank, and of
\* the neighbours of that rank the first in the order east, west, north,
\* south, then the diagonals.
LowestNeighbourFirstMinimum ==
    query.fn = "LowestNeighbour" =>
        LET ns == Neighbourhood(query.x, query.y)
        IN  \E i \in DOMAIN ns :
                /\ query.ret = ns[i]
                /\ \A j \in DOMAIN ns : ns[i].Val <= ns[j].Val
                /\ \A j \in 1 .. (i - 1) : ns[j].Val > ns[i].Val

\* LowestNeighbour has returned the first of two neighbours of the same
\* minimum rank, below RankMax, and that first one is not the first neighbour
LowestNeighbourFirstMinimumWitness ==
    /\ query.fn = "LowestNeighbour"
    /\ query.ret.Val < RankMax
    /\ LET ns == Neighbourhood(query.x, query.y)
       IN  /\ query.ret # ns[1]
           /\ Cardinality({j \in DOMAIN ns : ns[j].Val = query.ret.Val}) >= 2

\* C2: Calc terminates: from a blank field, the loop of every call reaches a
\* sweep that makes no mutation, and the call returns.
CalcTerminates == (pc = "loop") ~> (pc = "idle")

\* A call has returned after two sweeps that made mutations and one that made none
CalcTerminatesWitness ==
    pc = "idle" /\ op = "Calc" /\ mutations = 2 /\ sweeps = 3 /\ ~mademutation

\* The largest hop distance between two cells of the map without walls
Diameter ==
    IF topo = "Manhattan" THEN (SizeX - 1) + (SizeY - 1)
    ELSE Max(SizeX - 1, SizeY - 1)

\* The largest hop distance from the nearest target to a cell a path reaches
Farthest(T) == Max(0, Len(Hops(T)) - 1)

\* C9 as stated: the sweeps of a Calc on a blank field that make a mutation
\* never outnumber the diameter of the map.
SweepsWithinDiameter == mutations <= Diameter

\* C9, amended: the sweeps of a Calc on a blank field that make a mutation
\* never outnumber the largest hop distance from the nearest target to a
\* reached cell.
SweepsWithinFarthest == mutations <= Farthest(targets)

\* A call has returned after more mutating sweeps than the diameter
SweepsWithinFarthestWitness ==
    pc = "idle" /\ op = "Calc" /\ mutations > Diameter /\ mutations < MaxSweeps

RanksInRange == \A c \in Cells : Rank(c) \in 0 .. RankMax

\* The sum ln + 1 of every relaxation the field allows stays below 2^16
NoWrapAround ==
    \A c \in passable :
        LET sum == LowestNeighbour(Points, c[1], c[2]).Val + 1
        IN  sum <= RankMax + 1 /\ sum < RankModulus

NotAbove(P, Q) == \A c \in Cells : Q[c[1]][c[2]] <= P[c[1]][c[2]]

\* C10 as stated: in a sequence of Calc and Recalc calls no write ever
\* raises the rank of a cell.
NoWriteRaises == [][NotAbove(Points, Points')]_vars

\* C10, amended: in every state of a sequence of Calc and Recalc calls each
\* rank lies in 0 .. RankMax and the sum ln + 1 of a relaxation is at most
\* RankMax + 1, below 2^16; no write of Calc raises a rank, and the one write
\* that does is the reset of Recalc, to RankMax.
RanksSafe ==
    /\ [](RanksInRange /\ NoWrapAround)
    /\ [][IF op' = "Recalc" /\ pc = "idle" /\ pc' = "loop"
          THEN NotAbove(ResetPoints(Points), Points')
          ELSE NotAbove(Points, Points')]_vars

\* After a Recalc that raised ranks, beside relaxed cells, a passable cell
\* whose neighbours all hold RankMax: its relaxation adds 1 to RankMax
RanksSafeWitness ==
    /\ pc = "idle"
    /\ op = "Recalc"
    /\ dirty
    /\ \E c \in passable : Rank(c) \in 1 .. (RankMax - 1)
    /\ \E c \in passable \ targets :
        /\ Adjacent(c) # {}
        /\ LowestNeighbour(Points, c[1], c[2]).Val = RankMax

====
